---------------------------- MODULE Spec2Model ----------------------------
(***************************************************************************)
(* Model of KneeOADetector (src/signal analysis/VAG_Analysis.py).          *)
(*                                                                         *)
(* The detector is an object with the fields fs and thresholds (and the    *)
(* fixed bandpass_range and notch_freq).  Its methods are pure functions   *)
(* of their arguments and of those fields.  A state of the model is the    *)
(* object together with the last call made on it: which method (op), with  *)
(* which arguments (args) and what came back (ret): a returned value or    *)
(* the exception that was raised.                                          *)
(*                                                                         *)
(* Representation.                                                         *)
(*  - A frequency is an integer number of milli-hertz, so that 349.999 Hz  *)
(*    is 349999.  Thresholds are kept in Hz as in the source and converted *)
(*    by mHz where they are compared.                                      *)
(*  - A Python value that may be None is a sequence: <<>> is None and      *)
(*    <<v>> is the value v.                                                *)
(*  - A float that may be NaN is a fraction <<num, den>>; 0/0 is NaN.      *)
(*  - An outcome is [raised |-> "none", value |-> v] for a return and      *)
(*    [raised |-> E, value |-> <<>>] for an exception of class E.          *)
(*  - scipy and numpy are libraries.  Their argument checks are modelled   *)
(*    exactly (butter's 0 < Wn < 1, filtfilt's len(x) > padlen, argmax of  *)
(*    an empty array, float division 0/0 = NaN).  Their numerics are not:  *)
(*    the samples that filtfilt returns and the magnitudes that fft        *)
(*    returns are a nondeterministic choice, except that a linear          *)
(*    transform of an all-zero signal is all zero.                         *)
(*  - load_data, plot_analysis and is_abnormal are not modelled; the main  *)
(*    block is modelled without its plotting call.                         *)
(***************************************************************************)
EXTENDS Integers, Sequences, FiniteSets, TLC

VARIABLES fs, thresholds, op, args, ret

vars == <<fs, thresholds, op, args, ret>>

(***************************************************************************)
(* Bounds of the model.                                                    *)
(***************************************************************************)
\* Longest signal.  filtfilt needs more than 27 samples and argmax more
\* than 21, so 28 is the shortest length on which the whole pipeline runs.
MaxLen == 28

\* Sampling frequencies a detector is constructed with (Hz).
FsValues == {-5000, 0, 1200, 5000}

\* Frequencies (mHz) handed to get_severity_level: each boundary of the
\* two threshold tables, the value just below it, and values far from it.
Frequencies == {-1000, 0, 79999, 80000, 119999, 120000,
                349999, 350000, 449999, 450000}

\* Frequencies (mHz) handed to diagnose, one or two per severity level.
MicFreqs == {349999, 350000, 450000}
PiezoFreqs == {79999, 80000, 120000}

\* Energy ratios handed to diagnose (opaque to it).
Energies == {<<>>, <<0>>, <<2500>>}

Sensors == {"mic", "piezo"}

(***************************************************************************)
(* Values.                                                                 *)
(***************************************************************************)
None == <<>>

Some(v) == <<v>>

NaN == <<0, 0>>

IsNaN(x) == x[2] = 0

Return(v) == [raised |-> "none", value |-> v]

Raise(e) == [raised |-> e, value |-> <<>>]

\* Exceptions propagate: the rest of a computation runs on a returned value only.
Bind(S, F(_)) == UNION {IF o.raised = "none" THEN F(o.value) ELSE {o} : o \in S}

mHz(hz) == hz * 1000

\* float('inf'), above every frequency of the model.
inf == 2000000000

(***************************************************************************)
(* Signals: sample sequences.                                              *)
(***************************************************************************)
ZeroSignal(n) == [i \in 1..n |-> 0]

AltSignal(n) == [i \in 1..n |-> IF i % 2 = 1 THEN 1 ELSE -1]

Signals == UNION {{ZeroSignal(n), AltSignal(n)} : n \in 0..MaxLen}

IsAllZero(x) == \A i \in 1..Len(x) : x[i] = 0

(***************************************************************************)
(* __init__                                                                *)
(***************************************************************************)
bandpass_range == <<50, 600>>

notch_freq == 50

\* A plausible slip: the piezo mild interval starts above the healthy one's end.
InitialThresholds_Gap ==
    [piezo |-> [healthy |-> <<30, 80>>,
                mild    |-> <<90, 120>>,
                severe  |-> <<120, inf>>],
     mic   |-> [healthy |-> <<100, 350>>,
                mild    |-> <<350, 450>>,
                severe  |-> <<450, inf>>]]

InitialThresholds ==
    [piezo |-> [healthy |-> <<30, 80>>,
                mild    |-> <<80, 120>>,
                severe  |-> <<120, inf>>],
     mic   |-> [healthy |-> <<100, 350>>,
                mild    |-> <<350, 450>>,
                severe  |-> <<450, inf>>]]

Init ==
    /\ fs \in FsValues
    /\ thresholds = InitialThresholds
    /\ op = "__init__"
    /\ args = <<>>
    /\ ret = Return(None)

(***************************************************************************)
(* scipy.signal, as far as preprocess uses it.  A filter design returns    *)
(* its coefficient vectors; the model keeps their length, which is all     *)
(* that filtfilt's argument check reads.                                   *)
(***************************************************************************)
\* butter(N, [lo/(fs/2), hi/(fs/2)], btype='band') as called on lines 86-91.
\* fs/2 is 0.0 for fs = 0 and Python's division by it raises; butter rejects
\* critical frequencies outside 0 < Wn < 1; a band filter of order N has
\* 2N+1 coefficients.
butter(N, lo, hi) ==
    IF fs = 0 THEN Raise("ZeroDivisionError")
    ELSE IF ~(fs > 0 /\ 0 < 2 * lo /\ 2 * lo < fs /\ 0 < 2 * hi /\ 2 * hi < fs)
         THEN Raise("ValueError")
         ELSE Return(2 * N + 1)

\* iirnotch(w0, Q, fs): w0 is normalised to 2*w0/fs and rejected outside
\* [0, 1]; the notch has 3 coefficients.
iirnotch(w0, Q) ==
    IF fs = 0 THEN Raise("ZeroDivisionError")
    ELSE IF (fs > 0 /\ (2 * w0 > fs \/ w0 < 0)) \/ (fs < 0 /\ (2 * w0 < fs \/ w0 > 0))
         THEN Raise("ValueError")
         ELSE Return(3)

\* The samples a linear zero-phase filter can return for x: the same number
\* of samples; all zero for an all-zero x, otherwise not determined here.
FilteredSignals(x) ==
    IF IsAllZero(x) THEN {x} ELSE {y \in Signals : Len(y) = Len(x)}

\* filtfilt(b, a, x) with the default padding: padlen = 3 * max(len(a), len(b)),
\* and x must be longer than padlen.
filtfilt(ncoef, x) ==
    IF Len(x) <= 3 * ncoef
    THEN {Raise("ValueError")}
    ELSE {Return(y) : y \in FilteredSignals(x)}

(***************************************************************************)
(* preprocess(data, sensor_type): the set of its possible outcomes.        *)
(***************************************************************************)
preprocess(data, sensor_type) ==
    IF Len(data) < 10
    THEN {Return(data)}
    ELSE
      Bind({butter(4, bandpass_range[1], bandpass_range[2])}, LAMBDA ba :
      Bind(filtfilt(ba, data), LAMBDA filtered1 :
      Bind({iirnotch(notch_freq, 30)}, LAMBDA notch :
      Bind(filtfilt(notch, filtered1), LAMBDA filtered2 :
        IF sensor_type = "piezo"
        THEN Bind({iirnotch(100, 30)}, LAMBDA h :
                  filtfilt(h, filtered2))
        ELSE {Return(filtered2)}))))

Preprocess ==
    \E data \in Signals, sensor_type \in Sensors :
      \E out \in preprocess(data, sensor_type) :
        /\ op' = "preprocess"
        /\ args' = [data |-> data, sensor_type |-> sensor_type]
        /\ ret' = out
        /\ UNCHANGED <<fs, thresholds>>

(***************************************************************************)
(* numpy / scipy.fft, as far as analyze_signal uses them.  Arrays are      *)
(* functions on 0..m-1, indexed as in the source.                          *)
(***************************************************************************)
FlatSpectrum(m, l) == [i \in 0..(m - 1) |-> l]

PeakSpectrum(m, p, h, l) == [i \in 0..(m - 1) |-> IF i = p THEN h ELSE l]

\* np.abs(fft(data * np.hanning(n)))[:n // 2]: the magnitudes of the first
\* n // 2 bins.  The transform is linear, so an all-zero signal has an
\* all-zero spectrum; any other signal has one of a family of spectra (all
\* zero included: the Hann window is zero at both ends), a flat one or one
\* with a single peak of height 2 over a floor of 0 or 1, the peak in bin 9,
\* in bin 10 or in the last bin.
fft_magnitudes(data) ==
    LET m == Len(data) \div 2 IN
    IF IsAllZero(data)
    THEN {FlatSpectrum(m, 0)}
    ELSE {FlatSpectrum(m, 0), FlatSpectrum(m, 1)}
         \cup {PeakSpectrum(m, p, 2, l) : p \in {9, 10, m - 1} \cap (0..(m - 1)),
                                          l \in {0, 1}}

\* fftfreq(n, 1 / fs)[:n // 2]: bin i is at i * fs / n Hz.
fftfreq(n) == [i \in 0..((n \div 2) - 1) |-> (i * mHz(fs)) \div n]

\* np.max of a non-empty array of magnitudes.
np_max(a) == CHOOSE x \in {a[i] : i \in DOMAIN a} : \A i \in DOMAIN a : a[i] <= x

\* Float division x / y of magnitudes: 0 / 0 is NaN (numpy warns, it does
\* not raise).
np_divide(x, y) == IF y = 0 THEN NaN ELSE <<x, y>>

\* a < b for two floats of which none is NaN.
FracLess(a, b) == a[1] * b[2] < b[1] * a[2]

\* np.argmax(a[lo:]) + lo for a non-empty slice: the first NaN if there is
\* one, otherwise the first index holding the maximum.
np_argmax_from(a, lo) ==
    LET idx == {i \in DOMAIN a : i >= lo}
        nans == {i \in idx : IsNaN(a[i])}
        maxs == {i \in idx : \A j \in idx : ~FracLess(a[i], a[j])}
        first(S) == CHOOSE i \in S : \A j \in S : i <= j
    IN IF nans # {} THEN first(nans) ELSE first(maxs)

RECURSIVE SumNum(_, _)
SumNum(a, S) ==
    IF S = {} THEN 0
    ELSE LET i == CHOOSE j \in S : TRUE IN a[i][1] + SumNum(a, S \ {i})

\* np.sum(a[band]) of normalised magnitudes, which share one denominator:
\* 0.0 for an empty band, NaN if a summand is NaN.
np_sum(a, band) ==
    IF band = {} THEN <<0, 1>>
    ELSE IF \E i \in band : IsNaN(a[i]) THEN NaN
    ELSE LET i0 == CHOOSE j \in band : TRUE IN <<SumNum(a, band), a[i0][2]>>

\* high / (low + 1e-9), kept as its two operands; NaN if one of them is.
EnergyRatio(high, low) ==
    IF IsNaN(high) \/ IsNaN(low) THEN [nan |-> TRUE, high |-> NaN, low |-> NaN]
    ELSE [nan |-> FALSE, high |-> high, low |-> low]

(***************************************************************************)
(* analyze_signal(data): the set of its possible outcomes.                 *)
(***************************************************************************)
NoResult ==
    [dominant_freq |-> None, freqs |-> None, fft_vals |-> None, energy_ratio |-> None]

\* Lines 120-133, for the magnitudes mag of the first n // 2 bins.
Spectrum(n, mag) ==
    LET freqs == fftfreq(n)
        peak == np_max(mag)
        fft_vals == [i \in DOMAIN mag |-> np_divide(mag[i], peak)]
    IN IF {i \in DOMAIN fft_vals : i >= 10} = {}
       THEN Raise("ValueError")
       ELSE
         LET dominant_idx == np_argmax_from(fft_vals, 10)
             low_band == {i \in DOMAIN freqs :
                            freqs[i] >= mHz(50) /\ freqs[i] < mHz(150)}
             high_band == {i \in DOMAIN freqs :
                            freqs[i] >= mHz(300) /\ freqs[i] < mHz(600)}
         IN Return([dominant_freq |-> Some(freqs[dominant_idx]),
                    freqs |-> Some(freqs),
                    fft_vals |-> Some(fft_vals),
                    energy_ratio |-> Some(EnergyRatio(np_sum(fft_vals, high_band),
                                                      np_sum(fft_vals, low_band)))])

\* A plausible slip: the guard lets signals of 5 to 9 samples through.
analyze_signal_ShortGuard(data) ==
    LET n == Len(data) IN
    IF n < 5
    THEN {Return(NoResult)}
    ELSE IF fs = 0
         THEN {Raise("ZeroDivisionError")}
         ELSE {Spectrum(n, mag) : mag \in fft_magnitudes(data)}

analyze_signal(data) ==
    LET n == Len(data) IN
    IF n < 10
    THEN {Return(NoResult)}
    ELSE IF fs = 0
         THEN {Raise("ZeroDivisionError")}
         ELSE {Spectrum(n, mag) : mag \in fft_magnitudes(data)}

AnalyzeSignal ==
    \E data \in Signals :
      \E out \in analyze_signal(data) :
        /\ op' = "analyze_signal"
        /\ args' = [data |-> data]
        /\ ret' = out
        /\ UNCHANGED <<fs, thresholds>>

(***************************************************************************)
(* get_severity_level(freq, sensor).  freq may be None, which Python does  *)
(* not compare with a number.                                              *)
(***************************************************************************)
\* A plausible slip: exclusive lower bounds.
get_severity_level_Exclusive(freq, sensor) ==
    IF freq = None THEN Raise("TypeError")
    ELSE IF freq[1] > mHz(thresholds[sensor].severe[1]) THEN Return(2)
    ELSE IF freq[1] > mHz(thresholds[sensor].mild[1]) THEN Return(1)
    ELSE Return(0)

get_severity_level(freq, sensor) ==
    IF freq = None THEN Raise("TypeError")
    ELSE IF freq[1] >= mHz(thresholds[sensor].severe[1]) THEN Return(2)
    ELSE IF freq[1] >= mHz(thresholds[sensor].mild[1]) THEN Return(1)
    ELSE Return(0)

GetSeverityLevel ==
    \E f \in Frequencies, sensor \in Sensors :
        /\ op' = "get_severity_level"
        /\ args' = [freq |-> Some(f), sensor |-> sensor]
        /\ ret' = get_severity_level(Some(f), sensor)
        /\ UNCHANGED <<fs, thresholds>>

(***************************************************************************)
(* diagnose(mic_freq, piezo_freq, mic_energy, piezo_energy).               *)
(***************************************************************************)
ResearchBasis ==
    <<"--- Research Basis ---",
      "Tamura et al., 2013 - Mic >400 Hz correlates with KL3-4",
      "Chandran et al., 2021 - Piezo >120 Hz indicates sclerosis",
      "OARSI - Dual-sensor VAG improves OA detection">>

\* A plausible slip in the first rule: only a mildly elevated mic matches.
EarlyRule_OnlyMild(mic_level, piezo_level) == mic_level = 1 /\ piezo_level = 0

\* Line 150: the condition of the first rule.
EarlyRule(mic_level, piezo_level) == mic_level >= 1 /\ piezo_level = 0

\* Lines 150-191: the label and the notes for the two severity levels.
Decide(mic_level, piezo_level) ==
    LET branch ==
          IF EarlyRule(mic_level, piezo_level)
          THEN [diagnosis |-> "Early Osteoarthritis (KL Grade 1-2)",
                notes |-> <<"Mic shows elevated frequency -> cartilage roughening.",
                            "Piezo normal -> joint mechanics preserved.",
                            "MRI suggested for confirmation.">>]
          ELSE IF piezo_level >= 1 /\ mic_level = 0
          THEN [diagnosis |-> "Subchondral Bone Changes (Pre-OA)",
                notes |-> <<"Piezo frequency elevated -> bone remodeling.",
                            "Mic normal -> cartilage intact.",
                            "X-ray recommended.">>]
          ELSE IF mic_level = piezo_level
          THEN IF mic_level = 2
               THEN [diagnosis |-> "Severe Osteoarthritis (KL Grade 3-4)",
                     notes |-> <<"Both sensors show pathological vibration.">>]
               ELSE IF mic_level = 1
               THEN [diagnosis |-> "Moderate Osteoarthritis (KL Grade 2-3)",
                     notes |-> <<"Degeneration in progress.">>]
               ELSE [diagnosis |-> "Healthy Knee (KL Grade 0)",
                     notes |-> <<"No abnormal vibro-acoustic activity detected.">>]
          ELSE [diagnosis |-> "Inconclusive",
                notes |-> <<"Sensor disagreement detected.",
                            "Repeat test or use imaging methods.">>]
    IN [diagnosis |-> branch.diagnosis, notes |-> branch.notes \o ResearchBasis]

\* A plausible change: a high mic energy ratio overrides the table.
diagnose_UsesEnergy(mic_freq, piezo_freq, mic_energy, piezo_energy) ==
    LET mic_level == get_severity_level(mic_freq, "mic")
        piezo_level == get_severity_level(piezo_freq, "piezo")
    IN IF mic_level.raised # "none" THEN mic_level
       ELSE IF piezo_level.raised # "none" THEN piezo_level
       ELSE IF mic_energy # None /\ mic_energy[1] > 2000
            THEN Return(Decide(2, 2))
            ELSE Return(Decide(mic_level.value, piezo_level.value))

diagnose(mic_freq, piezo_freq, mic_energy, piezo_energy) ==
    LET mic_level == get_severity_level(mic_freq, "mic")
        piezo_level == get_severity_level(piezo_freq, "piezo")
    IN IF mic_level.raised # "none" THEN mic_level
       ELSE IF piezo_level.raised # "none" THEN piezo_level
       ELSE Return(Decide(mic_level.value, piezo_level.value))

Diagnose ==
    \E mic_freq \in {None} \cup {Some(f) : f \in MicFreqs},
       piezo_freq \in {None} \cup {Some(f) : f \in PiezoFreqs},
       mic_energy \in Energies, piezo_energy \in Energies :
        /\ op' = "diagnose"
        /\ args' = [mic_freq |-> mic_freq, piezo_freq |-> piezo_freq,
                    mic_energy |-> mic_energy, piezo_energy |-> piezo_energy]
        /\ ret' = diagnose(mic_freq, piezo_freq, mic_energy, piezo_energy)
        /\ UNCHANGED <<fs, thresholds>>

(***************************************************************************)
(* The main block (lines 246-278) on the two arrays load_data returned,    *)
(* which have one length.  Its detector is constructed with fs = 5000.     *)
(* Every exception of the pipeline is caught on line 277 and printed.      *)
(***************************************************************************)
main(mic_raw, piezo_raw) ==
    Bind(preprocess(mic_raw, "mic"), LAMBDA mic_clean :
    Bind(preprocess(piezo_raw, "piezo"), LAMBDA piezo_clean :
    Bind(analyze_signal(mic_clean), LAMBDA mic :
    Bind(analyze_signal(piezo_clean), LAMBDA piezo :
    Bind({diagnose(mic.dominant_freq, piezo.dominant_freq,
                   mic.energy_ratio, piezo.energy_ratio)}, LAMBDA d :
      {Return([mic_freq |-> mic.dominant_freq,
               piezo_freq |-> piezo.dominant_freq,
               diagnosis |-> d.diagnosis,
               notes |-> d.notes])})))))

Main ==
    /\ fs = 5000
    /\ \E mic_raw \in Signals, piezo_raw \in Signals :
         /\ Len(mic_raw) = Len(piezo_raw)
         /\ \E out \in main(mic_raw, piezo_raw) :
              /\ op' = "main"
              /\ args' = [mic_raw |-> mic_raw, piezo_raw |-> piezo_raw]
              /\ ret' = out
              /\ UNCHANGED <<fs, thresholds>>

Next ==
    \/ GetSeverityLevel
    \/ Diagnose
    \/ Main
    \/ AnalyzeSignal
    \/ Preprocess

Spec == Init /\ [][Next]_vars

(***************************************************************************)
(* Properties.                                                             *)
(***************************************************************************)
Called(name) == op = name

Returned == ret.raised = "none"

\* The decision table of the claim, pair by pair.
TableLabel(mic_level, piezo_level) ==
    CASE <<mic_level, piezo_level>> \in {<<1, 0>>, <<2, 0>>} ->
           "Early Osteoarthritis (KL Grade 1-2)"
      [] <<mic_level, piezo_level>> \in {<<0, 1>>, <<0, 2>>} ->
           "Subchondral Bone Changes (Pre-OA)"
      [] <<mic_level, piezo_level>> = <<2, 2>> -> "Severe Osteoarthritis (KL Grade 3-4)"
      [] <<mic_level, piezo_level>> = <<1, 1>> -> "Moderate Osteoarthritis (KL Grade 2-3)"
      [] <<mic_level, piezo_level>> = <<0, 0>> -> "Healthy Knee (KL Grade 0)"
      [] <<mic_level, piezo_level>> \in {<<1, 2>>, <<2, 1>>} -> "Inconclusive"

\* The severity the claim gives a frequency (mHz), by its stated boundaries.
BoundaryLevel(f, sensor) ==
    LET mild == IF sensor = "mic" THEN 350000 ELSE 80000
        severe == IF sensor = "mic" THEN 450000 ELSE 120000
    IN IF f >= severe THEN 2 ELSE IF f >= mild THEN 1 ELSE 0

\* C1: for every pair of severity levels in {0,1,2} x {0,1,2}, diagnose
\* returns the label of the decision table: (1,0) and (2,0) Early
\* Osteoarthritis, (0,1) and (0,2) Subchondral Bone Changes (Pre-OA), (2,2)
\* Severe, (1,1) Moderate, (0,0) Healthy Knee, (1,2) and (2,1) Inconclusive.
C1_DecisionTable ==
    (Called("diagnose") /\ args.mic_freq # None /\ args.piezo_freq # None) =>
        /\ Returned
        /\ ret.value.diagnosis =
             TableLabel(BoundaryLevel(args.mic_freq[1], "mic"),
                        BoundaryLevel(args.piezo_freq[1], "piezo"))

\* diagnose was called with a severe mic and a healthy piezo frequency and
\* returned Early Osteoarthritis.
C1_Witness ==
    /\ Called("diagnose")
    /\ args.mic_freq = Some(450000)
    /\ args.piezo_freq = Some(79999)
    /\ Returned
    /\ ret.value.diagnosis = "Early Osteoarthritis (KL Grade 1-2)"

\* C2: get_severity_level returns 2 at or above the severe lower bound,
\* else 1 at or above the mild lower bound, else 0; the bounds are 350 and
\* 450 Hz for mic, 80 and 120 Hz for piezo, and are inclusive.
C2_SeverityBoundaries ==
    Called("get_severity_level") =>
        ret = Return(BoundaryLevel(args.freq[1], args.sensor))

\* get_severity_level was called with exactly 350.0 Hz for mic and returned Mild.
C2_Witness ==
    /\ Called("get_severity_level")
    /\ args.freq = Some(350000)
    /\ args.sensor = "mic"
    /\ ret = Return(1)

\* C3: for a signal of fewer than 10 samples (the empty one included) and
\* either sensor kind, preprocess returns its input unchanged and
\* analyze_signal returns four None values; neither raises.
C3_ShortSignals ==
    /\ (Called("preprocess") /\ Len(args.data) < 10) => ret = Return(args.data)
    /\ (Called("analyze_signal") /\ Len(args.data) < 10) =>
          /\ Returned
          /\ ret.value.dominant_freq = None
          /\ ret.value.freqs = None
          /\ ret.value.fft_vals = None
          /\ ret.value.energy_ratio = None

\* analyze_signal was called with a non-zero signal of 9 samples and
\* returned no result.
C3_Witness ==
    /\ Called("analyze_signal")
    /\ Len(args.data) = 9
    /\ ~IsAllZero(args.data)
    /\ Returned
    /\ ret.value.dominant_freq = None

\* C4: with fs = 5000, preprocess of any signal of 10 or more samples
\* completes and returns as many samples as it was given.
C4_FilteredLength ==
    (Called("preprocess") /\ fs = 5000 /\ Len(args.data) >= 10) =>
        /\ Returned
        /\ Len(ret.value) = Len(args.data)

\* C5: when a channel has fewer than 10 samples, the pipeline of the main
\* block (preprocess, analyze_signal, diagnose) raises no exception.
C5_PipelineNeverRaises ==
    (Called("main") /\ (Len(args.mic_raw) < 10 \/ Len(args.piezo_raw) < 10)) =>
        Returned

\* C6: with a sampling frequency that is not positive or is at most 1200 Hz,
\* no call, whatever the signal, gets a filtered signal or a diagnosis back.
C6_ConfigurationRejected ==
    (fs <= 1200 /\ (Called("preprocess") \/ Called("diagnose"))) => ~Returned

Contiguous(t) ==
    /\ t.healthy[1] < t.healthy[2]
    /\ t.healthy[2] = t.mild[1]
    /\ t.mild[1] < t.mild[2]
    /\ t.mild[2] = t.severe[1]
    /\ t.severe[1] < t.severe[2]
    /\ t.severe[2] = inf

\* C7 as stated: for each sensor kind the three intervals are contiguous and
\* increasing and cover [0, infinity), the healthy one starting at 0, and no
\* operation changes the table.
C7_CoversFromZero ==
    /\ thresholds = InitialThresholds
    /\ \A sensor \in Sensors :
         /\ Contiguous(thresholds[sensor])
         /\ thresholds[sensor].healthy[1] = 0

\* C7 as amended: for each sensor kind the three intervals are contiguous and
\* increasing, with no gap and no overlap and an unbounded severe interval,
\* and cover [L, infinity) where L is the healthy lower bound, 30 Hz for
\* piezo and 100 Hz for mic; no operation changes the table.
C7_ContiguousFromHealthyBound ==
    /\ thresholds = InitialThresholds
    /\ \A sensor \in Sensors : Contiguous(thresholds[sensor])
    /\ thresholds.piezo.healthy[1] = 30
    /\ thresholds.mic.healthy[1] = 100

\* A classification ran and the table is the constructed one.
C7_Witness ==
    /\ Called("get_severity_level")
    /\ args.sensor = "piezo"
    /\ ret = Return(1)
    /\ thresholds.piezo.healthy[2] = thresholds.piezo.mild[1]

\* C8: a call of diagnose with the same two frequencies and any other two
\* energy ratios returns the same label and notes (or raises the same).
C8_EnergyIndependent ==
    Called("diagnose") =>
        \A mic_energy \in Energies, piezo_energy \in Energies :
            diagnose(args.mic_freq, args.piezo_freq, mic_energy, piezo_energy) = ret

\* diagnose returned a diagnosis for a high mic energy ratio and a
\* different piezo energy ratio.
C8_Witness ==
    /\ Called("diagnose")
    /\ Returned
    /\ args.mic_energy = Some(2500)
    /\ args.piezo_energy = Some(0)
    /\ ret.value.diagnosis = "Healthy Knee (KL Grade 0)"

\* C9: with fs = 5000, analyze_signal of any signal of 10 or more samples
\* returns a result whose dominant frequency is that of a bin of index >= 10
\* holding the maximum normalised magnitude among the bins of index >= 10.
C9_DominantBin ==
    (Called("analyze_signal") /\ fs = 5000 /\ Len(args.data) >= 10) =>
        /\ Returned
        /\ ret.value.dominant_freq # None
        /\ LET freqs == ret.value.freqs[1]
               fft_vals == ret.value.fft_vals[1]
           IN \E k \in DOMAIN fft_vals :
                /\ k >= 10
                /\ ret.value.dominant_freq = Some(freqs[k])
                /\ \A j \in DOMAIN fft_vals :
                      j >= 10 => ~FracLess(fft_vals[k], fft_vals[j])

\* C10: with fs = 5000, whenever analyze_signal returns a spectrum, no
\* normalised magnitude and no energy ratio is NaN; the normalised
\* magnitudes lie in [0, 1] and are either all zero (an all-zero spectrum)
\* or have maximum exactly 1.
C10_NormalisationGuarded ==
    (Called("analyze_signal") /\ fs = 5000 /\ Len(args.data) >= 10 /\ Returned) =>
        LET fft_vals == ret.value.fft_vals[1] IN
        /\ \A i \in DOMAIN fft_vals :
              /\ ~IsNaN(fft_vals[i])
              /\ 0 <= fft_vals[i][1]
              /\ fft_vals[i][1] <= fft_vals[i][2]
        /\ \/ \A i \in DOMAIN fft_vals : fft_vals[i][1] = 0
           \/ \E i \in DOMAIN fft_vals : fft_vals[i][1] = fft_vals[i][2]
        /\ ~ret.value.energy_ratio[1].nan

=============================================================================
